---- MODULE Spec2Model ----
(***************************************************************************)
(* The copy action plugin (lib/ansible/runner/action_plugins/copy.py):     *)
(* ActionModule.run and ActionModule._get_diff_data as a state machine.    *)
(* One behaviour is one invocation of run; pc is the position in its body. *)
(* The collaborators (the connection, the runner's remote modules, the     *)
(* controller's filesystem) answer nondeterministically.                   *)
(*                                                                         *)
(* Strings that the code takes apart (paths) are sequences of one-letter   *)
(* strings; Python's None is the empty tuple and a present value v is the  *)
(* one-element tuple <<v>>.                                                *)
(***************************************************************************)
EXTENDS Integers, Sequences, FiniteSets, TLC

VARIABLES
    options,       \* the request: complex_args and the parsed module_args
    pc,            \* position in run / _get_diff_data
    source,        \* options.get('src'), later the resolved local path
    content,       \* options.get('content')
    dest,          \* options.get('dest'), later the effective destination
    faf,           \* inject['first_available_file'] (None when not in inject)
    exists,        \* the controller paths for which os.path.exists is true
    check,         \* runner.check
    diff_on,       \* runner.diff
    sudo,          \* runner.sudo
    sudo_user,     \* runner.sudo_user
    fn_idx,        \* position of the for loop over first_available_file
    tmp_content,   \* the mkstemp path (None before it is created)
    tmp_removes,   \* number of os.remove(tmp_content) calls made
    local_md5,
    remote_md5,
    branch,        \* which side of line 100 was taken ("none" before it)
    peek_result,
    src_file,      \* what open/read/stat see of source in _get_diff_data
    diff,
    module_args,
    calls,         \* the collaborator calls made so far, in order
    result         \* what run returned (None while running or when it raised)

vars == <<options, pc, source, content, dest, faf, exists, check, diff_on,
          sudo, sudo_user, fn_idx, tmp_content, tmp_removes, local_md5,
          remote_md5, branch, peek_result, src_file, diff, module_args, calls, result>>

----------------------------------------------------------------------------
(* Bounds and program constants *)

\* longest first_available_file list explored
MaxCandidates == 2

\* src.read(8192)
ReadLimit == 8192

\* utils.MAX_FILE_SIZE_FOR_DIFF (1 MiB in ansible.utils)
MAX_FILE_SIZE_FOR_DIFF == 1048576

----------------------------------------------------------------------------
(* Values *)

None == <<>>
Some(v) == <<v>>
Val(o) == o[1]

NoneMd5 == "None"
Digests == {"d1", "d2"}
\* _remote_md5: a digest, "1" (no such file) or "3" (a directory)
DirectorySentinel == "3"
AbsentSentinel == "1"
RemoteMd5Results == Digests \cup {AbsentSentinel, DirectorySentinel}

EmptyDict == [k \in {} |-> 0]

----------------------------------------------------------------------------
(* Paths: os.path.basename, os.path.join, str.endswith, string + string *)

Sep == "/"

endswith(p, c) == Len(p) > 0 /\ p[Len(p)] = c

startswith(p, c) == Len(p) > 0 /\ p[1] = c

\* index of the last separator of p, 0 when there is none (str.rfind + 1)
LastSep(p) ==
    LET idx == {i \in 1..Len(p) : p[i] = Sep}
    IN  IF idx = {} THEN 0 ELSE CHOOSE i \in idx : \A j \in idx : j <= i

basename(p) == SubSeq(p, LastSep(p) + 1, Len(p))

\* posixpath.join(a, b)
join(a, b) ==
    IF startswith(b, Sep) THEN b
    ELSE IF a = <<>> \/ endswith(a, Sep) THEN a \o b
    ELSE a \o <<Sep>> \o b

\* utils.template: the modelled names carry no template markers
template(basedir, p) == p

\* utils.path_dwim: absolute paths are kept, others are relative to basedir
path_dwim(basedir, given) ==
    IF startswith(given, Sep) THEN given ELSE join(basedir, given)

basedir == <<"/", "p">>

\* the remote temporary directory handed to run as tmp
tmp == <<"/", "r", "/">>

\* the name tempfile.mkstemp gives
MkstempPath == <<"/", "t", "/", "k">>

SrcNames == { <<"f">>, <<"/", "s", "/", "g">> }
LocalPaths == { path_dwim(basedir, template(basedir, s)) : s \in SrcNames }
DestNames == { <<"/", "d">>, <<"/", "d", "/">> }

RECURSIVE SeqsUpTo(_, _)
SeqsUpTo(S, n) ==
    IF n = 0 THEN {<<>>}
    ELSE LET shorter == SeqsUpTo(S, n - 1)
         IN  shorter \cup {Append(s, x) : s \in {t \in shorter : Len(t) = n - 1}, x \in S}

CandidateLists == SeqsUpTo(SrcNames, MaxCandidates)

----------------------------------------------------------------------------
(* The call log *)

\* one call: what was called, on what, and what it answered
Call(op, arg, ret) == [op |-> op, arg |-> arg, ret |-> ret]

Count(op) == Cardinality({i \in 1..Len(calls) : calls[i].op = op})

Called(op) == \E i \in 1..Len(calls) : calls[i].op = op

Positions(op) == {i \in 1..Len(calls) : calls[i].op = op}

RemoteOps == {"_remote_md5", "diff_peek", "slurp", "put_file", "chmod", "copy", "file"}

----------------------------------------------------------------------------
(* Results *)

\* ReturnData(conn=conn, result=dict(failed=True, msg=...))
Failed(msg) == Some([failed |-> TRUE, changed |-> FALSE, msg |-> msg,
                     diff |-> EmptyDict, by |-> "run"])

\* what a delegated module can answer
ModuleResults(name) ==
    { [failed |-> f, changed |-> c, msg |-> "", diff |-> EmptyDict, by |-> name] :
        <<f, c>> \in {<<FALSE, FALSE>>, <<FALSE, TRUE>>, <<TRUE, FALSE>>} }

Done == pc \in {"returned", "raised"}

----------------------------------------------------------------------------
Init ==
    /\ options \in [ src     : {None} \cup {Some(s) : s \in SrcNames},
                      content : {None, Some("c")},
                      dest    : {None} \cup {Some(d) : d \in DestNames} ]
    /\ pc = "start"
    /\ source = options.src
    /\ content = options.content
    /\ dest = options.dest
    /\ faf \in {None} \cup {Some(l) : l \in CandidateLists}
    /\ exists \in SUBSET LocalPaths
    /\ check \in BOOLEAN
    /\ diff_on \in BOOLEAN
    /\ sudo \in BOOLEAN
    /\ sudo_user \in {"root", "app"}
    /\ sudo = FALSE => sudo_user = "root"
    /\ fn_idx = 1
    /\ tmp_content = None
    /\ tmp_removes = 0
    /\ local_md5 = NoneMd5
    /\ remote_md5 = NoneMd5
    /\ branch = "none"
    /\ peek_result = None
    /\ src_file = None
    /\ diff = EmptyDict
    /\ module_args = None
    /\ calls = <<>>
    /\ result = None

----------------------------------------------------------------------------
(* run, lines 40-49: the two argument checks *)

MissingRequired ==
    (source = None /\ content = None /\ faf = None) \/ dest = None

\* MutuallyExclusive with the candidate list forgotten
MutuallyExclusive_SrcOnly ==
    source # None /\ content # None

MutuallyExclusive ==
    (source # None \/ faf # None) /\ content # None

Return(r) ==
    /\ result' = r
    /\ pc' = "returned"

Raise ==
    /\ result' = None
    /\ pc' = "raised"

CheckOptions ==
    /\ pc = "start"
    /\ IF MissingRequired
         THEN Return(Failed("src (or content) and dest are required"))
       ELSE IF MutuallyExclusive
         THEN Return(Failed("src and content are mutually exclusive"))
       ELSE /\ pc' = IF faf # None THEN "first_available_file"
                     ELSE IF content # None THEN "mkstemp"
                     ELSE "template"
            /\ result' = result
    /\ UNCHANGED <<options, branch, source, content, dest, faf, exists, check,
                   diff_on, sudo, sudo_user, fn_idx, tmp_content, tmp_removes, local_md5,
                   remote_md5, peek_result, src_file, diff, module_args, calls>>

\* the request and runner fields that run only reads
Config == <<options, content, faf, exists, check, diff_on, sudo, sudo_user>>

\* os.remove(tmp_content)
os_remove ==
    /\ tmp_removes' = tmp_removes + 1
    /\ calls' = Append(calls, Call("os.remove", Val(tmp_content), "ok"))

FileExists(p) ==
    \/ p \in exists
    \/ tmp_content # None /\ p = Val(tmp_content) /\ tmp_removes = 0

----------------------------------------------------------------------------
(* run, lines 53-78: the resolution of source *)

\* FirstAvailableFile without the break of line 61
FirstAvailableFile_NoBreak ==
    /\ pc = "first_available_file"
    /\ fn_idx <= Len(Val(faf))
    /\ LET fn == path_dwim(basedir, template(basedir, Val(faf)[fn_idx]))
       IN  /\ calls' = Append(calls, Call("os.path.exists", fn,
                                          IF FileExists(fn) THEN "True" ELSE "False"))
           /\ source' = IF FileExists(fn) THEN Some(fn) ELSE source
           /\ IF FileExists(fn) /\ fn_idx = Len(Val(faf))
                THEN pc' = "md5" /\ fn_idx' = fn_idx
                ELSE pc' = pc /\ fn_idx' = fn_idx + 1
    /\ UNCHANGED <<Config, branch, dest, tmp_content, tmp_removes, local_md5,
                   remote_md5, peek_result, src_file, diff, module_args, result>>

\* one iteration of the for loop over first_available_file, lines 55-61
FirstAvailableFile ==
    /\ pc = "first_available_file"
    /\ fn_idx <= Len(Val(faf))
    /\ LET fn == path_dwim(basedir, template(basedir, Val(faf)[fn_idx]))
       IN  /\ calls' = Append(calls, Call("os.path.exists", fn,
                                          IF FileExists(fn) THEN "True" ELSE "False"))
           /\ IF FileExists(fn)
                THEN /\ source' = Some(fn)
                     /\ pc' = "md5"
                     /\ fn_idx' = fn_idx
                ELSE /\ fn_idx' = fn_idx + 1
                     /\ UNCHANGED <<source, pc>>
    /\ UNCHANGED <<Config, branch, dest, tmp_content, tmp_removes, local_md5, remote_md5,
                   peek_result, src_file, diff, module_args, result>>

\* lines 62-64: the loop ended with found = False
NotFound ==
    /\ pc = "first_available_file"
    /\ fn_idx > Len(Val(faf))
    /\ Return(Failed("could not find src in first_available_file list"))
    /\ UNCHANGED <<Config, branch, source, dest, fn_idx, tmp_content, tmp_removes,
                   local_md5, remote_md5, peek_result, src_file, diff,
                   module_args, calls>>

\* lines 66-67: tempfile.mkstemp and os.fdopen, outside the try block
Mkstemp ==
    /\ pc = "mkstemp"
    /\ \/ /\ tmp_content' = Some(MkstempPath)
          /\ calls' = Append(calls, Call("mkstemp", MkstempPath, "ok"))
          /\ pc' = "write"
          /\ result' = result
       \/ /\ Raise
          /\ calls' = Append(calls, Call("mkstemp", None, "raise"))
          /\ tmp_content' = tmp_content
    /\ UNCHANGED <<Config, branch, source, dest, fn_idx, tmp_removes, local_md5,
                   remote_md5, peek_result, src_file, diff, module_args>>

\* lines 68-73: f.write(content) inside try/except
WriteContent ==
    /\ pc = "write"
    /\ \/ /\ calls' = Append(calls, Call("f.write", Val(tmp_content), "ok"))
          /\ pc' = "close"
          /\ UNCHANGED <<tmp_removes, result>>
       \/ /\ tmp_removes' = tmp_removes + 1
          /\ calls' = calls \o << Call("f.write", Val(tmp_content), "raise"),
                                  Call("os.remove", Val(tmp_content), "ok") >>
          /\ Return(Failed("could not write content temp file"))
    /\ UNCHANGED <<Config, branch, source, dest, fn_idx, tmp_content, local_md5,
                   remote_md5, peek_result, src_file, diff, module_args>>

\* lines 74-75: f.close() (which flushes the buffered write) and source = tmp_content
CloseContent ==
    /\ pc = "close"
    /\ \/ /\ calls' = Append(calls, Call("f.close", Val(tmp_content), "ok"))
          /\ source' = tmp_content
          /\ pc' = "md5"
          /\ result' = result
       \/ /\ calls' = Append(calls, Call("f.close", Val(tmp_content), "raise"))
          /\ Raise
          /\ source' = source
    /\ UNCHANGED <<Config, branch, dest, fn_idx, tmp_content, tmp_removes, local_md5,
                   remote_md5, peek_result, src_file, diff, module_args>>

\* lines 77-78
TemplateSource ==
    /\ pc = "template"
    /\ source' = Some(path_dwim(basedir, template(basedir, Val(source))))
    /\ pc' = "md5"
    /\ UNCHANGED <<Config, branch, dest, fn_idx, tmp_content, tmp_removes, local_md5,
                   remote_md5, peek_result, src_file, diff, module_args, calls,
                   result>>

\* utils.md5 of a file that exists: the digest of what the controller's
\* filesystem holds there
md5(p) == IF p = <<"/", "s", "/", "g">> THEN "d2" ELSE "d1"

\* lines 80-83: utils.md5 is None for a path that does not exist
LocalMd5 ==
    /\ pc = "md5"
    /\ IF FileExists(Val(source))
         THEN /\ local_md5' = md5(Val(source))
              /\ pc' = "probe"
              /\ result' = result
         ELSE /\ local_md5' = NoneMd5
              /\ Return(Failed("could not find src"))
    /\ calls' = Append(calls, Call("md5", Val(source), local_md5'))
    /\ UNCHANGED <<Config, branch, source, dest, fn_idx, tmp_content, tmp_removes,
                   remote_md5, peek_result, src_file, diff, module_args>>

----------------------------------------------------------------------------
(* run, lines 85-97: the destination *)

\* DirectoryIntent with the rewrite left to the probe
DirectoryIntent_Unchanged(d, src) == d

\* lines 85-87
DirectoryIntent(d, src) ==
    IF endswith(d, Sep) THEN join(d, basename(src)) ELSE d

\* line 90
IsDirectory(answer) == answer = DirectorySentinel

\* lines 85-89: the rewrite of a dest ending in "/" and the first probe
Probe ==
    /\ pc = "probe"
    /\ dest' = Some(DirectoryIntent(Val(dest), Val(source)))
    /\ \/ /\ remote_md5' \in RemoteMd5Results
          /\ calls' = Append(calls, Call("_remote_md5", Val(dest'), remote_md5'))
          /\ pc' = "probed"
          /\ result' = result
       \/ /\ Raise
          /\ calls' = Append(calls, Call("_remote_md5", Val(dest'), "raise"))
          /\ remote_md5' = remote_md5
    /\ UNCHANGED <<Config, branch, source, fn_idx, tmp_content, tmp_removes, local_md5,
                   peek_result, src_file, diff, module_args>>

\* DirectoryCheck without the test of lines 92-95
DirectoryCheck_NoConflict ==
    /\ pc = "probed"
    /\ IF IsDirectory(remote_md5)
         THEN /\ dest' = Some(join(Val(dest), basename(Val(source))))
              /\ pc' = "reprobe"
         ELSE /\ pc' = "decide"
              /\ dest' = dest
    /\ UNCHANGED <<Config, branch, source, fn_idx, tmp_content, tmp_removes,
                   local_md5, remote_md5, peek_result, src_file, diff,
                   module_args, calls, result>>

\* lines 90-96: what the first probe's answer leads to
DirectoryCheck ==
    /\ pc = "probed"
    /\ IF IsDirectory(remote_md5)
         THEN IF content # None
                THEN /\ os_remove
                     /\ Return(Failed("can not use content with a dir as dest"))
                     /\ dest' = dest
                ELSE /\ dest' = Some(join(Val(dest), basename(Val(source))))
                     /\ pc' = "reprobe"
                     /\ UNCHANGED <<tmp_removes, calls, result>>
         ELSE /\ pc' = "decide"
              /\ UNCHANGED <<dest, tmp_removes, calls, result>>
    /\ UNCHANGED <<Config, branch, source, fn_idx, tmp_content, local_md5, remote_md5,
                   peek_result, src_file, diff, module_args>>

\* Reprobe with the answer of the second probe not kept
Reprobe_KeepFirst ==
    /\ pc = "reprobe"
    /\ \/ /\ \E answer \in RemoteMd5Results :
               calls' = Append(calls, Call("_remote_md5", Val(dest), answer))
          /\ pc' = "decide"
          /\ result' = result
       \/ /\ Raise
          /\ calls' = Append(calls, Call("_remote_md5", Val(dest), "raise"))
    /\ UNCHANGED <<Config, branch, source, dest, fn_idx, tmp_content, tmp_removes,
                   local_md5, remote_md5, peek_result, src_file, diff,
                   module_args>>

\* Reprobe as a loop: the answer of the second probe is tested like the first
Reprobe_Loop ==
    /\ pc = "reprobe"
    /\ \/ /\ remote_md5' \in RemoteMd5Results
          /\ calls' = Append(calls, Call("_remote_md5", Val(dest), remote_md5'))
          /\ pc' = "probed"
          /\ result' = result
       \/ /\ Raise
          /\ calls' = Append(calls, Call("_remote_md5", Val(dest), "raise"))
          /\ remote_md5' = remote_md5
    /\ UNCHANGED <<Config, branch, source, dest, fn_idx, tmp_content, tmp_removes,
                   local_md5, peek_result, src_file, diff, module_args>>

\* line 97: the second probe
Reprobe ==
    /\ pc = "reprobe"
    /\ \/ /\ remote_md5' \in RemoteMd5Results
          /\ calls' = Append(calls, Call("_remote_md5", Val(dest), remote_md5'))
          /\ pc' = "decide"
          /\ result' = result
       \/ /\ Raise
          /\ calls' = Append(calls, Call("_remote_md5", Val(dest), "raise"))
          /\ remote_md5' = remote_md5
    /\ UNCHANGED <<Config, branch, source, dest, fn_idx, tmp_content, tmp_removes,
                   local_md5, peek_result, src_file, diff, module_args>>

----------------------------------------------------------------------------
(* run, lines 99-105: the decision *)

\* NeedsTransfer that transfers whatever the checksums say
NeedsTransfer_Always(local, remote) == TRUE

\* line 100
NeedsTransfer(local, remote) == local # remote

\* Decide with _get_diff_data called whatever runner.diff is
Decide_AlwaysDiff ==
    /\ pc = "decide"
    /\ IF NeedsTransfer(local_md5, remote_md5)
         THEN /\ branch' = "change"
              /\ pc' = "diff_peek"
         ELSE /\ branch' = "no_change"
              /\ pc' = "no_change"
    /\ diff' = EmptyDict
    /\ UNCHANGED <<Config, source, dest, fn_idx, tmp_content, tmp_removes,
                   local_md5, remote_md5, peek_result, src_file, module_args,
                   calls, result>>

Decide ==
    /\ pc = "decide"
    /\ IF NeedsTransfer(local_md5, remote_md5)
         THEN /\ branch' = "change"
              /\ pc' = IF diff_on THEN "diff_peek" ELSE "check_mode"
         ELSE /\ branch' = "no_change"
              /\ pc' = "no_change"
    /\ diff' = EmptyDict
    /\ UNCHANGED <<Config, source, dest, fn_idx, tmp_content, tmp_removes,
                   local_md5, remote_md5, peek_result, src_file, module_args,
                   calls, result>>

----------------------------------------------------------------------------
(* _get_diff_data, lines 137-173 *)

\* diff[k] = v
Put(d, k, v) == (k :> v) @@ d

\* what the 'file' module answers to diff_peek=1
PeekAnswers ==
    { [successful |-> FALSE, state |-> "absent", appears_binary |-> FALSE, size |-> 0] }
    \cup
    { [successful |-> TRUE, state |-> "absent", appears_binary |-> FALSE, size |-> 0] }
    \cup
    [ successful : {TRUE}, state : {"file"}, appears_binary : BOOLEAN,
      size : {MAX_FILE_SIZE_FOR_DIFF, MAX_FILE_SIZE_FOR_DIFF + 1} ]

PeekKind(a) ==
    IF ~a.successful THEN "failed"
    ELSE IF a.state = "absent" THEN "absent"
    ELSE IF a.appears_binary THEN "binary"
    ELSE IF a.size > MAX_FILE_SIZE_FOR_DIFF THEN "larger"
    ELSE "file"

\* lines 138-141
DiffPeek ==
    /\ pc = "diff_peek"
    /\ \/ \E a \in PeekAnswers :
            /\ peek_result' = Some(a)
            /\ calls' = Append(calls, Call("diff_peek", Val(dest), PeekKind(a)))
            /\ pc' = IF a.successful THEN "diff_dest" ELSE "check_mode"
            /\ result' = result
       \/ /\ Raise
          /\ calls' = Append(calls, Call("diff_peek", Val(dest), "raise"))
          /\ peek_result' = peek_result
    /\ diff' = EmptyDict
    /\ UNCHANGED <<Config, branch, source, dest, fn_idx, tmp_content, tmp_removes,
                   local_md5, remote_md5, src_file, module_args>>

\* DiffDest with the content fetched also for a destination that appears binary
DiffDest_BinaryFetched ==
    /\ pc = "diff_dest"
    /\ LET peek == Val(peek_result)
       IN  IF peek.state = "absent"
             THEN diff' = Put(EmptyDict, "before", "") /\ pc' = "diff_source"
           ELSE IF peek.appears_binary
             THEN diff' = Put(EmptyDict, "dst_binary", 1) /\ pc' = "slurp"
           ELSE IF peek.size > MAX_FILE_SIZE_FOR_DIFF
             THEN /\ diff' = Put(EmptyDict, "dst_larger", MAX_FILE_SIZE_FOR_DIFF)
                  /\ pc' = "diff_source"
           ELSE diff' = EmptyDict /\ pc' = "slurp"
    /\ UNCHANGED <<Config, branch, source, dest, fn_idx, tmp_content, tmp_removes,
                   local_md5, remote_md5, peek_result, src_file, module_args,
                   calls, result>>

\* lines 143-150: the guards of the remote side
DiffDest ==
    /\ pc = "diff_dest"
    /\ LET peek == Val(peek_result)
       IN  IF peek.state = "absent"
             THEN diff' = Put(EmptyDict, "before", "") /\ pc' = "diff_source"
           ELSE IF peek.appears_binary
             THEN diff' = Put(EmptyDict, "dst_binary", 1) /\ pc' = "diff_source"
           ELSE IF peek.size > MAX_FILE_SIZE_FOR_DIFF
             THEN /\ diff' = Put(EmptyDict, "dst_larger", MAX_FILE_SIZE_FOR_DIFF)
                  /\ pc' = "diff_source"
           ELSE diff' = EmptyDict /\ pc' = "slurp"
    /\ UNCHANGED <<Config, branch, source, dest, fn_idx, tmp_content, tmp_removes,
                   local_md5, remote_md5, peek_result, src_file, module_args,
                   calls, result>>

\* lines 151-159: the 'slurp' read of the destination
Slurp ==
    /\ pc = "slurp"
    /\ \/ /\ calls' = Append(calls, Call("slurp", Val(dest), "base64"))
          /\ diff' = Put(Put(diff, "before_header", Val(dest)), "before", "DEST")
          /\ pc' = "diff_source"
          /\ result' = result
       \/ /\ calls' = Append(calls, Call("slurp", Val(dest), "no content"))
          /\ pc' = "diff_source"
          /\ UNCHANGED <<diff, result>>
       \/ /\ calls' = Append(calls, Call("slurp", Val(dest), "unknown encoding"))
          /\ Raise
          /\ diff' = diff
       \/ /\ calls' = Append(calls, Call("slurp", Val(dest), "raise"))
          /\ Raise
          /\ diff' = diff
    /\ UNCHANGED <<Config, branch, source, dest, fn_idx, tmp_content, tmp_removes,
                   local_md5, remote_md5, peek_result, src_file, module_args>>

\* a local file as _get_diff_data sees it: its size (st[stat.ST_SIZE]) and the
\* offset of its first null byte (-1 when it has none)
LocalFiles ==
    { f \in [ size : {ReadLimit, MAX_FILE_SIZE_FOR_DIFF, MAX_FILE_SIZE_FOR_DIFF + 1},
              nul  : {-1, ReadLimit - 1, ReadLimit} ] : f.nul < f.size }

\* HasNul with a first read one byte short
HasNul_ShortRead(f) == f.nul # -1 /\ f.nul < ReadLimit - 1

\* lines 162 and 164: src.read(8192).find("\x00") != -1
HasNul(f) == f.nul # -1 /\ f.nul < ReadLimit

\* SourceSide with the size guard tested before the binary guard
SourceSide_SizeFirst(d, f, src) ==
    IF f.size > MAX_FILE_SIZE_FOR_DIFF
      THEN Put(d, "src_larger", MAX_FILE_SIZE_FOR_DIFF)
    ELSE IF HasNul(f)
      THEN Put(d, "src_binary", 1)
    ELSE Put(Put(d, "after_header", src), "after", "SOURCE")

\* SourceSide that leaves the local side out next to a binary destination
SourceSide_SkipOnBinaryDest(d, f, src) ==
    IF "dst_binary" \in DOMAIN d
      THEN d
    ELSE IF HasNul(f)
      THEN Put(d, "src_binary", 1)
    ELSE IF f.size > MAX_FILE_SIZE_FOR_DIFF
      THEN Put(d, "src_larger", MAX_FILE_SIZE_FOR_DIFF)
    ELSE Put(Put(d, "after_header", src), "after", "SOURCE")

\* lines 164-171: the guards of the local side
SourceSide(d, f, src) ==
    IF HasNul(f)
      THEN Put(d, "src_binary", 1)
    ELSE IF f.size > MAX_FILE_SIZE_FOR_DIFF
      THEN Put(d, "src_larger", MAX_FILE_SIZE_FOR_DIFF)
    ELSE Put(Put(d, "after_header", src), "after", "SOURCE")

\* the reads lines 161-171 make of source
SourceReads(f, src) ==
    <<Call("src.read(8192)", src, "ok")>> \o
    ( IF ~HasNul(f) /\ ~(f.size > MAX_FILE_SIZE_FOR_DIFF)
        THEN <<Call("src.read()", src, "ok")>> ELSE <<>> )

\* lines 137-173 as a function of what the collaborators answer: the peek
\* answer a, the slurp answer s ("base64" or "no content"; any other encoding
\* raises at line 157 and nothing is returned) and the local file f
get_diff_data(a, s, f, destination, src) ==
    IF ~a.successful THEN EmptyDict
    ELSE LET before ==
               IF a.state = "absent" THEN Put(EmptyDict, "before", "")
               ELSE IF a.appears_binary THEN Put(EmptyDict, "dst_binary", 1)
               ELSE IF a.size > MAX_FILE_SIZE_FOR_DIFF
                 THEN Put(EmptyDict, "dst_larger", MAX_FILE_SIZE_FOR_DIFF)
               ELSE IF s = "base64"
                 THEN Put(Put(EmptyDict, "before_header", destination), "before", "DEST")
               ELSE EmptyDict
         IN  SourceSide(before, f, src)

\* lines 161-173
DiffSource ==
    /\ pc = "diff_source"
    /\ \E f \in LocalFiles :
         /\ src_file' = Some(f)
         /\ diff' = SourceSide(diff, f, Val(source))
         /\ calls' = calls \o SourceReads(f, Val(source))
    /\ pc' = "check_mode"
    /\ UNCHANGED <<Config, branch, source, dest, fn_idx, tmp_content, tmp_removes,
                   local_md5, remote_md5, peek_result, module_args, result>>

----------------------------------------------------------------------------
(* run, lines 107-123: the change branch *)

\* ReturnData(conn=conn, result=dict(changed=True), diff=diff)
Changed(d) == Some([failed |-> FALSE, changed |-> TRUE, msg |-> "", diff |-> d,
                    by |-> "run"])

\* CheckMode with the removal of lines 108-109 made before the test of line 107
CheckMode_ReleaseEarly ==
    /\ pc = "check_mode"
    /\ IF content # None THEN os_remove ELSE UNCHANGED <<tmp_removes, calls>>
    /\ IF check
         THEN Return(Changed(diff))
         ELSE pc' = "put_file" /\ result' = result
    /\ UNCHANGED <<Config, branch, source, dest, fn_idx, tmp_content, local_md5,
                   remote_md5, peek_result, src_file, diff, module_args>>

\* CheckMode without lines 108-109
CheckMode_NoRemove ==
    /\ pc = "check_mode"
    /\ IF check
         THEN Return(Changed(diff))
         ELSE pc' = "put_file" /\ result' = result
    /\ UNCHANGED <<Config, branch, source, dest, fn_idx, tmp_content, tmp_removes,
                   local_md5, remote_md5, peek_result, src_file, diff,
                   module_args, calls>>

\* lines 107-110
CheckMode ==
    /\ pc = "check_mode"
    /\ IF check
         THEN /\ IF content # None THEN os_remove
                                   ELSE UNCHANGED <<tmp_removes, calls>>
              /\ Return(Changed(diff))
         ELSE /\ pc' = "put_file"
              /\ UNCHANGED <<tmp_removes, calls, result>>
    /\ UNCHANGED <<Config, branch, source, dest, fn_idx, tmp_content, local_md5,
                   remote_md5, peek_result, src_file, diff, module_args>>

\* line 113 and line 131: tmp + os.path.basename(source)
tmp_src == tmp \o basename(Val(source))

\* PutFile with the error of conn.put_file caught and dropped
PutFile_Swallow ==
    /\ pc = "put_file"
    /\ \E ret \in {"ok", "raise"} :
         calls' = Append(calls, Call("put_file", <<Val(source), tmp_src>>, ret))
    /\ pc' = "staged"
    /\ UNCHANGED <<Config, branch, source, dest, fn_idx, tmp_content, tmp_removes,
                   local_md5, remote_md5, peek_result, src_file, diff,
                   module_args, result>>

\* lines 113-114
PutFile ==
    /\ pc = "put_file"
    /\ \/ /\ calls' = Append(calls, Call("put_file", <<Val(source), tmp_src>>, "ok"))
          /\ pc' = "staged"
          /\ result' = result
       \/ /\ calls' = Append(calls, Call("put_file", <<Val(source), tmp_src>>, "raise"))
          /\ Raise
    /\ UNCHANGED <<Config, branch, source, dest, fn_idx, tmp_content, tmp_removes,
                   local_md5, remote_md5, peek_result, src_file, diff,
                   module_args>>

\* NeedsChmod without the test of the sudo user
NeedsChmod_AnySudo == sudo

\* line 118
NeedsChmod == sudo /\ sudo_user # "root"

\* lines 115-118
Staged ==
    /\ pc = "staged"
    /\ IF content # None THEN os_remove ELSE UNCHANGED <<tmp_removes, calls>>
    /\ pc' = IF NeedsChmod THEN "chmod" ELSE "copy"
    /\ UNCHANGED <<Config, branch, source, dest, fn_idx, tmp_content, local_md5,
                   remote_md5, peek_result, src_file, diff, module_args, result>>

\* line 119: the answer of _low_level_exec_command is not looked at
Chmod ==
    /\ pc = "chmod"
    /\ \/ /\ \E rc \in {"rc=0", "rc=1"} :
               calls' = Append(calls, Call("chmod", tmp_src, rc))
          /\ pc' = "copy"
          /\ result' = result
       \/ /\ calls' = Append(calls, Call("chmod", tmp_src, "raise"))
          /\ Raise
    /\ UNCHANGED <<Config, branch, source, dest, fn_idx, tmp_content, tmp_removes,
                   local_md5, remote_md5, peek_result, src_file, diff,
                   module_args>>

ModuleAnswer(r) ==
    IF r.failed THEN "failed" ELSE IF r.changed THEN "changed" ELSE "ok"

\* runner._execute_module(conn, tmp, name, module_args, ...) as the last
\* statement of run: its answer is what run returns
ExecuteModule(name) ==
    \/ \E r \in ModuleResults(name) :
         /\ calls' = Append(calls, Call(name, Val(module_args'), ModuleAnswer(r)))
         /\ Return(Some(r))
    \/ /\ calls' = Append(calls, Call(name, Val(module_args'), "raise"))
       /\ Raise

\* lines 122-123
CopyModule ==
    /\ pc = "copy"
    /\ module_args' = Some([src |-> tmp_src, CHECKMODE |-> FALSE])
    /\ ExecuteModule("copy")
    /\ UNCHANGED <<Config, branch, source, dest, fn_idx, tmp_content, tmp_removes,
                   local_md5, remote_md5, peek_result, src_file, diff>>

----------------------------------------------------------------------------
(* run, lines 125-135: the branch of equal checksums *)

\* NoChange without lines 133-134
NoChange_NoCheckmode ==
    /\ pc = "no_change"
    /\ IF content # None THEN os_remove ELSE UNCHANGED <<tmp_removes, calls>>
    /\ module_args' = Some([src |-> tmp_src, CHECKMODE |-> FALSE])
    /\ pc' = "file"
    /\ UNCHANGED <<Config, branch, source, dest, fn_idx, tmp_content, local_md5,
                   remote_md5, peek_result, src_file, diff, result>>

\* lines 129-134
NoChange ==
    /\ pc = "no_change"
    /\ IF content # None THEN os_remove ELSE UNCHANGED <<tmp_removes, calls>>
    /\ module_args' = Some([src |-> tmp_src, CHECKMODE |-> check])
    /\ pc' = "file"
    /\ UNCHANGED <<Config, branch, source, dest, fn_idx, tmp_content, local_md5,
                   remote_md5, peek_result, src_file, diff, result>>

\* line 135
FileModule ==
    /\ pc = "file"
    /\ module_args' = module_args
    /\ ExecuteModule("file")
    /\ UNCHANGED <<Config, branch, source, dest, fn_idx, tmp_content, tmp_removes,
                   local_md5, remote_md5, peek_result, src_file, diff>>

----------------------------------------------------------------------------

Next ==
    \/ CheckOptions
    \/ FirstAvailableFile
    \/ NotFound
    \/ Mkstemp
    \/ WriteContent
    \/ CloseContent
    \/ TemplateSource
    \/ LocalMd5
    \/ Probe
    \/ DirectoryCheck
    \/ Reprobe
    \/ Decide
    \/ DiffPeek
    \/ DiffDest
    \/ Slurp
    \/ DiffSource
    \/ CheckMode
    \/ PutFile
    \/ Staged
    \/ Chmod
    \/ CopyModule
    \/ NoChange
    \/ FileModule

Spec == Init /\ [][Next]_vars

----------------------------------------------------------------------------
(* Properties of run and _get_diff_data *)

\* the probes made so far, in order
Probes == SelectSeq(calls, LAMBDA c : c.op = "_remote_md5")

FirstProbeSaidDirectory == Len(Probes) >= 1 /\ Probes[1].ret = DirectorySentinel

NoCall(ops) == \A i \in 1..Len(calls) : calls[i].op \notin ops

\* C1: whenever run ends, by a return or by an error raised, and the temporary
\* file of the inline content was created, it was removed exactly once.
C1_RemovedExactlyOnce ==
    (Done /\ tmp_content # None) => tmp_removes = 1

\* C2: in check mode with a local checksum that differs from the decisive remote
\* one, put_file, chmod and the 'copy'/'file' delegation are never called, and
\* when run returns, its result is its own changed=True and the temporary file
\* (if any) was removed once, as the last thing before the return.
C2_CheckModeChange ==
    (check /\ branch # "none" /\ local_md5 # remote_md5) =>
        /\ NoCall({"put_file", "chmod", "copy", "file"})
        /\ pc = "returned" =>
             /\ Val(result).changed
             /\ ~Val(result).failed
             /\ Val(result).by = "run"
             /\ content # None =>
                  /\ tmp_removes = 1
                  /\ calls[Len(calls)].op = "os.remove"

C2_Witness ==
    /\ pc = "returned"
    /\ check /\ diff_on
    /\ branch = "change"
    /\ content # None
    /\ tmp_removes = 1
    /\ Called("diff_peek")

\* C3 as stated: with equal checksums the returned result has changed=false and
\* neither put_file nor chmod was called.
C3_Original ==
    (pc = "returned" /\ branch # "none" /\ local_md5 = remote_md5) =>
        /\ ~Val(result).changed
        /\ NoCall({"put_file", "chmod"})

\* C3 amended: with equal checksums no transfer interface is called (put_file,
\* chmod, the 'copy' module), and what run returns is the answer of the 'file'
\* module, whose changed field that module decides.
C3_NoTransferOnEqual ==
    (branch # "none" /\ local_md5 = remote_md5) =>
        /\ NoCall({"put_file", "chmod", "copy"})
        /\ pc = "returned" =>
             /\ Val(result).by = "file"
             /\ calls[Len(calls)].op = "file"
             /\ calls[Len(calls)].ret = ModuleAnswer(Val(result))

C3_Witness ==
    /\ pc = "returned"
    /\ branch = "no_change"
    /\ local_md5 = remote_md5
    /\ Val(result).changed

BothGiven ==
    options.content # None /\ (options.src # None \/ faf # None)

\* C4 as stated: a request with inline content and a source fails with the
\* mutually-exclusive error whatever its other fields are.
C4_Original ==
    (pc # "start" /\ BothGiven) =>
        result = Failed("src and content are mutually exclusive")

\* C4 amended: a request with inline content and a source fails at once: with
\* the mutually-exclusive error when it names a dest, with the required-fields
\* error when it does not.
C4_MutuallyExclusive ==
    (pc # "start" /\ BothGiven) =>
        /\ pc = "returned"
        /\ calls = <<>>
        /\ result = IF options.dest = None
                      THEN Failed("src (or content) and dest are required")
                      ELSE Failed("src and content are mutually exclusive")

C4_Witness ==
    /\ pc = "returned"
    /\ options.content # None /\ options.src = None /\ faf # None
    /\ options.dest # None
    /\ result = Failed("src and content are mutually exclusive")

DestEndsWithSep ==
    options.dest # None /\ endswith(Val(options.dest), Sep)

\* C5: when the requested dest ends with "/", the first probe is made on dest
\* followed by the basename of the resolved source, not on the path that ends
\* with the separator.
C5_RewriteBeforeProbe ==
    (DestEndsWithSep /\ Len(Probes) >= 1) =>
        /\ Probes[1].arg = Val(options.dest) \o basename(Val(source))
        /\ ~endswith(Probes[1].arg, Sep)
        /\ pc = "probed" => Val(dest) = Probes[1].arg

C5_Witness ==
    /\ DestEndsWithSep
    /\ pc = "probed"
    /\ Probes[1].arg = <<"/", "d", "/", "g">>

\* C6: there are never more than two probes; and when the source is a file and
\* the first probe says "directory", run ends with exactly two probes, the
\* second on the first probed path joined with the basename of the source,
\* which is the effective destination.
C6_TwoProbes ==
    /\ Len(Probes) <= 2
    /\ (Done /\ content = None /\ FirstProbeSaidDirectory) =>
         /\ Len(Probes) = 2
         /\ Probes[2].arg = Probes[1].arg \o <<Sep>> \o basename(Val(source))
         /\ Val(dest) = Probes[2].arg

C6_Witness ==
    /\ pc = "returned"
    /\ content = None
    /\ Len(Probes) = 2
    /\ Probes[1].ret = DirectorySentinel
    /\ Probes[2].ret = DirectorySentinel

\* C7: with inline content and a first probe that says "directory", nothing but
\* the removal of the temporary file follows the probe, and run returns the
\* failed result of the content/directory conflict.
C7_ContentDirectoryConflict ==
    (content # None /\ FirstProbeSaidDirectory) =>
        /\ Len(Probes) = 1
        /\ NoCall({"diff_peek", "slurp", "src.read(8192)", "src.read()",
                   "put_file", "chmod", "copy", "file"})
        /\ pc \in {"probed", "returned"}
        /\ pc = "returned" =>
             /\ result = Failed("can not use content with a dir as dest")
             /\ tmp_removes = 1

C7_Witness ==
    /\ pc = "returned"
    /\ content # None
    /\ FirstProbeSaidDirectory
    /\ tmp_removes = 1

TmpFileFailed ==
    \E i \in 1..Len(calls) :
        calls[i].op \in {"mkstemp", "f.write"} /\ calls[i].ret = "raise"

\* C8: when the temporary file of the inline content cannot be created or
\* written, run returns a failed result, raises nothing, and has called no
\* remote interface.
C8_WriteErrorReturned ==
    (Done /\ TmpFileFailed) =>
        /\ pc = "returned"
        /\ Val(result).failed
        /\ NoCall(RemoteOps)

FailureAnswers == {"raise", "failed", "rc=1", "no content"}

FailedAt(i, ops) == calls[i].op \in ops /\ calls[i].ret \in FailureAnswers

\* C9 as stated: after a failure of put_file, chmod or the diff peek/read, no
\* later remote step is made and run ends in failure (a result with
\* failed=true, or the error raised to the caller).
C9_Original ==
    \A i \in 1..Len(calls) :
        FailedAt(i, {"put_file", "chmod", "diff_peek", "slurp"}) =>
            /\ \A j \in (i + 1)..Len(calls) : calls[j].op \notin RemoteOps
            /\ Done => (pc = "raised" \/ Val(result).failed)

\* C9 amended: no remote call is made twice; a remote call that raises
\* (put_file among them) is the last call of run, which ends with that error
\* raised, not with a result; a diff peek that answers with a failure leaves
\* the diff empty, and after a failed peek or read or a chmod that answers
\* non-zero, run outside check mode goes on to the 'copy' delegation and
\* returns its answer.
C9_NoRetry ==
    /\ \A op \in {"diff_peek", "slurp", "put_file", "chmod", "copy", "file"} :
         Count(op) <= 1
    /\ \A i \in 1..Len(calls) :
         (calls[i].op \in RemoteOps /\ calls[i].ret = "raise") =>
             (i = Len(calls) /\ pc = "raised")
    /\ \A i \in 1..Len(calls) :
         (calls[i].op = "diff_peek" /\ calls[i].ret = "failed") => diff = EmptyDict
    /\ ( /\ pc = "returned"
         /\ ~check
         /\ \E i \in 1..Len(calls) :
              /\ FailedAt(i, {"chmod", "diff_peek", "slurp"})
              /\ calls[i].ret # "raise" )
       => /\ calls[Len(calls)].op = "copy"
          /\ Val(result).by = "copy"

C9_Witness ==
    /\ pc = "returned"
    /\ \E i \in 1..Len(calls) : calls[i].op = "diff_peek" /\ calls[i].ret = "failed"
    /\ \E i \in 1..Len(calls) : calls[i].op = "chmod" /\ calls[i].ret = "rc=1"
    /\ Val(result).by = "copy"
    /\ ~Val(result).failed

\* C10 as stated: in _get_diff_data after a successful peek, a local file
\* larger than the ceiling gives src_larger = ceiling, no 'after', and no full
\* re-read.
C10_Original ==
    (src_file # None /\ Val(src_file).size > MAX_FILE_SIZE_FOR_DIFF) =>
        /\ "src_larger" \in DOMAIN diff
        /\ diff["src_larger"] = MAX_FILE_SIZE_FOR_DIFF
        /\ "after" \notin DOMAIN diff
        /\ ~Called("src.read()")

\* C10 amended: a local file larger than the ceiling gives src_larger = ceiling
\* when its first 8192 bytes hold no null byte and src_binary (without
\* src_larger) when they hold one; either way there is no 'after' and no full
\* re-read.
C10_SizeGuard ==
    (src_file # None /\ Val(src_file).size > MAX_FILE_SIZE_FOR_DIFF) =>
        LET f == Val(src_file)
            nulInFirstRead == f.nul >= 0 /\ f.nul <= ReadLimit - 1
        IN  /\ ~nulInFirstRead =>
                 /\ "src_larger" \in DOMAIN diff
                 /\ diff["src_larger"] = MAX_FILE_SIZE_FOR_DIFF
                 /\ "src_binary" \notin DOMAIN diff
            /\ nulInFirstRead =>
                 /\ "src_binary" \in DOMAIN diff
                 /\ "src_larger" \notin DOMAIN diff
            /\ "after" \notin DOMAIN diff
            /\ "after_header" \notin DOMAIN diff
            /\ ~Called("src.read()")
            /\ Count("src.read(8192)") = 1

C10_Witness ==
    /\ pc = "check_mode"
    /\ src_file # None
    /\ Val(src_file).size > MAX_FILE_SIZE_FOR_DIFF
    /\ Val(src_file).nul = -1
    /\ "src_larger" \in DOMAIN diff

\* C11: in _get_diff_data after a successful peek, a local file with a null
\* byte among its first 8192 bytes gives src_binary whatever its size, no
\* 'after', and is read once, by the read of at most 8192 bytes.
C11_BinaryGuard ==
    ( /\ src_file # None
      /\ Val(src_file).nul >= 0
      /\ Val(src_file).nul <= ReadLimit - 1 ) =>
        /\ "src_binary" \in DOMAIN diff
        /\ diff["src_binary"] = 1
        /\ "src_larger" \notin DOMAIN diff
        /\ "after" \notin DOMAIN diff
        /\ "after_header" \notin DOMAIN diff
        /\ Count("src.read(8192)") = 1
        /\ ~Called("src.read()")

C11_Witness ==
    /\ pc = "check_mode"
    /\ src_file # None
    /\ Val(src_file).nul = ReadLimit - 1
    /\ Val(src_file).size <= MAX_FILE_SIZE_FOR_DIFF
    /\ "src_binary" \in DOMAIN diff

\* the position of the one call of op
Pos(op) == CHOOSE i \in Positions(op) : TRUE

DiffReads == {"diff_peek", "slurp", "src.read(8192)", "src.read()"}

\* C13: _get_diff_data is entered exactly when runner.diff is set and the
\* checksums differ; every read it makes comes before put_file and 'copy'; and
\* a result of run carries a diff that is not empty only with runner.diff set
\* and differing checksums.
C13_DiffEngine ==
    /\ Called("diff_peek") => (diff_on /\ branch = "change" /\ local_md5 # remote_md5)
    /\ (branch = "change" /\ diff_on /\ pc # "diff_peek") => Called("diff_peek")
    /\ \A i, j \in 1..Len(calls) :
         (calls[i].op \in DiffReads /\ calls[j].op \in {"put_file", "copy"}) => i < j
    /\ \A i \in 1..Len(calls) : calls[i].op \in DiffReads \ {"diff_peek"} =>
         (Called("diff_peek") /\ Pos("diff_peek") < i)
    /\ (pc = "returned" /\ Val(result).diff # EmptyDict) =>
         (diff_on /\ branch = "change" /\ local_md5 # remote_md5)

C13_Witness ==
    /\ pc = "returned"
    /\ Called("slurp")
    /\ Called("src.read()")
    /\ Called("put_file")
    /\ Val(result).by = "copy"

\* C14: with equal checksums the temporary file (if any) is removed first,
\* then the 'file' module is called, once, never 'copy', with CHECKMODE=True
\* in its arguments exactly when runner.check is set, and what run returns is
\* that module's answer.
C14_NoChangeBranch ==
    branch = "no_change" =>
        /\ NoCall({"copy", "put_file", "chmod"} \cup DiffReads)
        /\ Count("file") <= 1
        /\ Called("file") =>
             /\ calls[Pos("file")].arg.CHECKMODE = check
             /\ Pos("file") = Len(calls)
             /\ Done
             /\ content # None =>
                  (tmp_removes = 1 /\ Pos("os.remove") = Pos("file") - 1)
        /\ Done => Called("file")
        /\ pc = "returned" =>
             /\ Val(result).by = "file"
             /\ calls[Pos("file")].ret = ModuleAnswer(Val(result))

C14_Witness ==
    /\ pc = "returned"
    /\ branch = "no_change"
    /\ check
    /\ content # None
    /\ calls[Len(calls)].arg.CHECKMODE

\* C15: the branch taken is the comparison of the local checksum with the
\* answer of the last probe made (the second one when the first said
\* "directory"): equal gives the branch of the 'file' module, anything else
\* (another digest, "1", or "3" from the second probe) the transfer branch.
C15_LastProbeDecides ==
    branch # "none" =>
        LET last == Probes[Len(Probes)].ret
        IN  /\ Len(Probes) = IF Probes[1].ret = DirectorySentinel THEN 2 ELSE 1
            /\ branch = "no_change" <=> local_md5 = last
            /\ branch = "change" <=> local_md5 # last
            /\ last \in Digests \cup {AbsentSentinel, DirectorySentinel}

C15_Witness ==
    /\ branch = "change"
    /\ Len(Probes) = 2
    /\ Probes[2].ret = DirectorySentinel
    /\ Called("put_file")

\* the entries of first_available_file looked at so far, in order
Examined == SelectSeq(calls, LAMBDA c : c.op = "os.path.exists")

\* the candidates as lines 56-57 resolve them
Candidates ==
    [i \in 1..Len(Val(faf)) |-> path_dwim(basedir, template(basedir, Val(faf)[i]))]

\* C16: with a first_available_file list, once the loop is over the source is
\* the first entry, in list order, whose resolved path exists, whatever src
\* the request names; the entries up to it were examined and none after it;
\* and when no entry exists run has returned the no-candidate failure with no
\* checksum computed and no remote call made.
C16_FirstAvailable ==
    ( /\ faf # None
      /\ options.dest # None /\ options.content = None
      /\ pc \notin {"start", "first_available_file"} ) =>
        LET found == {i \in 1..Len(Val(faf)) : Candidates[i] \in exists}
        IN  IF found # {}
              THEN LET k == CHOOSE i \in found : \A j \in found : i <= j
                   IN  /\ source = Some(Candidates[k])
                       /\ Len(Examined) = k
                       /\ \A j \in 1..k : Examined[j].arg = Candidates[j]
                       /\ \A j \in 1..(k - 1) : Examined[j].ret = "False"
                       /\ Called("md5") => calls[Pos("md5")].arg = Candidates[k]
              ELSE /\ pc = "returned"
                   /\ result = Failed("could not find src in first_available_file list")
                   /\ Len(Examined) = Len(Val(faf))
                   /\ NoCall({"md5"} \cup RemoteOps)

C16_Witness ==
    /\ faf # None /\ Len(Val(faf)) = 2
    /\ options.src = Some(<<"f">>)
    /\ Val(faf) = << <<"f">>, <<"/", "s", "/", "g">> >>
    /\ exists = {<<"/", "s", "/", "g">>}
    /\ source = Some(<<"/", "s", "/", "g">>)
    /\ Called("_remote_md5")

BeforeSides == {"before", "dst_binary", "dst_larger"}
AfterSides == {"after", "src_binary", "src_larger"}

OneSideEach(d) ==
    /\ Cardinality(DOMAIN d \cap BeforeSides) <= 1
    /\ Cardinality(DOMAIN d \cap AfterSides) <= 1
    /\ "before_header" \in DOMAIN d => "before" \in DOMAIN d
    /\ "after_header" \in DOMAIN d <=> "after" \in DOMAIN d

\* C17: a diff built by _get_diff_data, and the diff of a result run returns,
\* holds at most one of before / dst_binary / dst_larger and at most one of
\* after / src_binary / src_larger.
C17_OneRepresentation ==
    /\ OneSideEach(diff)
    /\ pc = "returned" => OneSideEach(Val(result).diff)

C17_Witness ==
    /\ pc = "returned"
    /\ "before_header" \in DOMAIN Val(result).diff
    /\ "after" \in DOMAIN Val(result).diff

LocalKeys == {"after", "after_header", "src_binary", "src_larger"}

\* the local-side outcome of a diff
LocalSide(d) == [k \in DOMAIN d \cap LocalKeys |-> d[k]]

SlurpAnswers == {"base64", "no content"}

\* what the 'slurp' module answered in this run ("base64" when it was not called)
SlurpAnswered ==
    IF Called("slurp") THEN calls[Pos("slurp")].ret ELSE "base64"

\* C18 as stated: for the local file of this run, whatever the remote peer
\* reports for the destination (a failed peek included), _get_diff_data gives
\* the local-side outcome it gave in this run.
C18_Original ==
    src_file # None =>
        \A a \in PeekAnswers : \A s \in SlurpAnswers :
            LocalSide(get_diff_data(a, s, Val(src_file), Val(dest), Val(source)))
                = LocalSide(diff)

\* C18 amended: for the local file of this run, whatever a successful peek
\* reports for the destination (absent, binary, larger than the ceiling,
\* content that is read or not), _get_diff_data gives the local-side outcome it
\* gave in this run; a binary destination with a small text source gives
\* dst_binary together with 'after'; and a failed peek gives an empty diff,
\* with no local-side outcome and no read of the source.
C18_SidesIndependent ==
    /\ src_file # None =>
         /\ diff = get_diff_data(Val(peek_result), SlurpAnswered, Val(src_file),
                                 Val(dest), Val(source))
         /\ \A a \in {b \in PeekAnswers : b.successful} : \A s \in SlurpAnswers :
              LocalSide(get_diff_data(a, s, Val(src_file), Val(dest), Val(source)))
                  = LocalSide(diff)
         /\ ( /\ Val(peek_result).state = "file"
              /\ Val(peek_result).appears_binary
              /\ Val(src_file).nul = -1
              /\ Val(src_file).size <= MAX_FILE_SIZE_FOR_DIFF )
            => /\ "dst_binary" \in DOMAIN diff
               /\ "after" \in DOMAIN diff
               /\ diff["after_header"] = Val(source)
    /\ (peek_result # None /\ ~Val(peek_result).successful) =>
         /\ diff = EmptyDict
         /\ src_file = None
         /\ NoCall({"slurp", "src.read(8192)", "src.read()"})

C18_Witness ==
    /\ pc = "check_mode"
    /\ src_file # None
    /\ Val(peek_result).appears_binary
    /\ Val(src_file).nul = -1
    /\ Val(src_file).size <= MAX_FILE_SIZE_FOR_DIFF
    /\ "dst_binary" \in DOMAIN diff
    /\ "after" \in DOMAIN diff

\* C19: with inline content every probe is made on the dest the request names,
\* never on a path made from the name of the temporary file.
C19_ContentProbesNamedDest ==
    (content # None /\ Len(Probes) >= 1) =>
        \A i \in 1..Len(Probes) :
            /\ Probes[i].arg = Val(options.dest)
            /\ basename(Probes[i].arg) # basename(Val(tmp_content))

\* the calls that read or write the local source file
LocalFileOps == {"f.write", "f.close", "md5", "src.read(8192)", "src.read()", "put_file"}

\* C20: with inline content, no call that reads the local source (utils.md5,
\* the reads of _get_diff_data, put_file) comes after the removal of the
\* temporary file, and the file that is removed is the one that was read.
C20_NoUseAfterRelease ==
    content # None =>
        \A i \in 1..Len(calls) : calls[i].op = "os.remove" =>
            /\ calls[i].arg = Val(tmp_content)
            /\ \A j \in (i + 1)..Len(calls) : calls[j].op \notin LocalFileOps
            /\ Called("md5") => (Pos("md5") < i /\ calls[Pos("md5")].arg = calls[i].arg)
            /\ Called("put_file") =>
                 (Pos("put_file") < i /\ calls[Pos("put_file")].arg[1] = calls[i].arg)
            /\ \A j \in 1..Len(calls) :
                 calls[j].op \in {"src.read(8192)", "src.read()"} =>
                     (j < i /\ calls[j].arg = calls[i].arg)

C20_Witness ==
    /\ pc = "returned"
    /\ content # None
    /\ Called("src.read()")
    /\ Called("put_file")
    /\ Called("os.remove")
    /\ Pos("put_file") < Pos("os.remove")
    /\ Val(result).by = "copy"
====
